---- MODULE Spec2Model ----
(***************************************************************************)
(* A model of the expedition rich-text crate: the MessageStyle merge       *)
(* algebra (text.rs), the Message builder operations (text.rs), and the    *)
(* depth-first flattening traversal with its visitors (util.rs, text.rs).  *)
(*                                                                         *)
(* Option<T> is modelled as a sequence of length at most one: None is <<>> *)
(* and Some(x) is <<x>>.  A String is a TLA+ string, push_str is \o.       *)
(***************************************************************************)
EXTENDS Integers, Sequences, FiniteSets, TLC

VARIABLES
    vals,       \* the Message values the builder expression has produced so far
    phase,      \* "build", "flatten", "returned" or "written"; "style", "drive"
    frames,     \* the call stack of Message::flatten, innermost call last
    flattener,  \* the visitor handed to Message::flatten
    calls,      \* the MessageFlattener calls flatten has issued, in order
    out,        \* what fmt::Display wrote to the formatter, None before
    sorig,      \* style algebra: the receiver before any merge
    sself,      \* style algebra: the receiver (`self` of merge_from)
    sprev,      \* style algebra: the receiver before the latest merge
    strace      \* style algebra: the overlays merged into sself, in order

vars == <<vals, phase, frames, flattener, calls, out, sorig, sself, sprev, strace>>
buildVars == <<vals, phase, frames, flattener, calls, out>>
styleVars == <<sorig, sself, sprev, strace>>

---------------------------------------------------------------------------
(* Bounds of the model *)

\* most nodes held by the builder at any time
MaxNodes == 3
\* most style fields set (not None) over all nodes held by the builder
MaxSetFields == 2
\* most fields set in a style given as an argument (merge_from, with_style)
MaxArgFields == 1

---------------------------------------------------------------------------
(* Option<T> *)

None == <<>>
Some(x) == <<x>>

\* Option::or: self if it is Some, otherwise optb
Or(self, optb) == IF self # None THEN self ELSE optb

---------------------------------------------------------------------------
(* MessageStyle *)

Fields == {"color", "bold", "italic", "underline", "strikethrough"}
Colors == {"RED", "BLUE"}
OptColors == {None} \cup {Some(c) : c \in Colors}
OptBools == {None, Some(TRUE), Some(FALSE)}

MessageStyle ==
    [color : OptColors, bold : OptBools, italic : OptBools,
     underline : OptBools, strikethrough : OptBools]

\* #[derive(Default)]: every field None
MessageStyle_default ==
    [color |-> None, bold |-> None, italic |-> None,
     underline |-> None, strikethrough |-> None]

SetFieldsOf(style) == {f \in Fields : style[f] # None}

\* the styles given as arguments: at most MaxArgFields fields set
StyleInputs == {s \in MessageStyle : Cardinality(SetFieldsOf(s)) <= MaxArgFields}

\* faulty variants of merge_from
merge_from_LeftBiased(self, from) ==
    [color |-> Or(self.color, from.color),
     bold |-> Or(self.bold, from.bold),
     italic |-> Or(self.italic, from.italic),
     underline |-> Or(self.underline, from.underline),
     strikethrough |-> Or(self.strikethrough, from.strikethrough)]

merge_from_Replace(self, from) ==
    IF from = MessageStyle_default THEN self ELSE from

merge_from_Assign(self, from) ==
    [color |-> Or(from.color, self.color),
     bold |-> from.bold,
     italic |-> Or(from.italic, self.italic),
     underline |-> Or(from.underline, self.underline),
     strikethrough |-> Or(from.strikethrough, self.strikethrough)]

\* MessageStyle::merge_from: the value of *self after the call
merge_from(self, from) ==
    [color |-> Or(from.color, self.color),
     bold |-> Or(from.bold, self.bold),
     italic |-> Or(from.italic, self.italic),
     underline |-> Or(from.underline, self.underline),
     strikethrough |-> Or(from.strikethrough, self.strikethrough)]

\* MessageStyle::merged_from: merge_from on a copy of self
merged_from(self, from) ==
    LET res == self IN merge_from(res, from)

---------------------------------------------------------------------------
(* Message *)

Contents == {"", "a", "b"}

\* Message::new
new(content) ==
    [content |-> content, style |-> MessageStyle_default, children |-> <<>>]

\* a faulty variant of with: the child is put first
with_Prepend(self, child) ==
    [self EXCEPT !.children = <<child>> \o @]

\* IntoMessage::with
with(self, child) ==
    [self EXCEPT !.children = Append(@, child)]

\* Styleable for T: Into<Message>
with_style(self, style) == [self EXCEPT !.style = style]
with_color(self, color) == [self EXCEPT !.style.color = color]

\* a faulty variant of with_bold: the style is rebuilt from the default
with_bold_Reset(self, state) ==
    [self EXCEPT !.style = [MessageStyle_default EXCEPT !.bold = state]]

with_bold(self, state) == [self EXCEPT !.style.bold = state]

with_italic(self, state) == [self EXCEPT !.style.italic = state]
with_underline(self, state) == [self EXCEPT !.style.underline = state]
with_strikethrough(self, state) == [self EXCEPT !.style.strikethrough = state]

\* Styleable's provided methods on a Message receiver: each calls with_X
Message_color(self, c) == with_color(self, Some(c))
Message_bold(self) == with_bold(self, Some(TRUE))
Message_no_bold(self) == with_bold(self, Some(FALSE))
Message_italic(self) == with_italic(self, Some(TRUE))
Message_no_italic(self) == with_italic(self, Some(FALSE))
Message_underline(self) == with_underline(self, Some(TRUE))
Message_no_underline(self) == with_underline(self, Some(FALSE))
Message_strikethrough(self) == with_strikethrough(self, Some(TRUE))
Message_no_strikethrough(self) == with_strikethrough(self, Some(FALSE))

\* Styleable for MessageStyle
MessageStyle_with_style(self, style) == style
MessageStyle_with_color(self, c) == [self EXCEPT !.color = c]
MessageStyle_with_bold(self, state) == [self EXCEPT !.bold = state]
MessageStyle_with_italic(self, state) == [self EXCEPT !.italic = state]
MessageStyle_with_underline(self, state) == [self EXCEPT !.underline = state]
MessageStyle_with_strikethrough(self, state) == [self EXCEPT !.strikethrough = state]

\* Styleable's provided methods on a MessageStyle receiver
MessageStyle_color(self, c) == MessageStyle_with_color(self, Some(c))
MessageStyle_bold(self) == MessageStyle_with_bold(self, Some(TRUE))
MessageStyle_no_bold(self) == MessageStyle_with_bold(self, Some(FALSE))
MessageStyle_italic(self) == MessageStyle_with_italic(self, Some(TRUE))
MessageStyle_no_italic(self) == MessageStyle_with_italic(self, Some(FALSE))
MessageStyle_underline(self) == MessageStyle_with_underline(self, Some(TRUE))
MessageStyle_no_underline(self) == MessageStyle_with_underline(self, Some(FALSE))
MessageStyle_strikethrough(self) == MessageStyle_with_strikethrough(self, Some(TRUE))
MessageStyle_no_strikethrough(self) ==
    MessageStyle_with_strikethrough(self, Some(FALSE))

RECURSIVE NodeCount(_), NodeCountSeq(_)
NodeCount(m) == 1 + NodeCountSeq(m.children)
NodeCountSeq(ms) ==
    IF ms = <<>> THEN 0 ELSE NodeCount(Head(ms)) + NodeCountSeq(Tail(ms))

RECURSIVE SetFieldCount(_), SetFieldCountSeq(_)
SetFieldCount(m) == Cardinality(SetFieldsOf(m.style)) + SetFieldCountSeq(m.children)
SetFieldCountSeq(ms) ==
    IF ms = <<>> THEN 0 ELSE SetFieldCount(Head(ms)) + SetFieldCountSeq(Tail(ms))

Top(s) == s[Len(s)]
Front(s) == SubSeq(s, 1, Len(s) - 1)

---------------------------------------------------------------------------
(* The visitors: StackFlattener (util.rs) and fmt::Display's Flattener *)

\* style_stack.last().unwrap_or(&MessageStyle::default())
last_or_default(style_stack) ==
    IF style_stack = <<>> THEN MessageStyle_default ELSE Top(style_stack)

\* StackFlattener::new: an empty style stack; `consumed` is the list of
\* (content, style) calls the consumer closure has received
StackFlattener_new ==
    [kind |-> "StackFlattener", style_stack |-> <<>>, consumed |-> <<>>]

\* a faulty variant of push_style: the entered style is pushed as it is (a delta)
StackFlattener_push_style_Raw(self, style) ==
    [self EXCEPT !.style_stack = Append(@, style)]

StackFlattener_push_style(self, style) ==
    [self EXCEPT !.style_stack =
        Append(@, merged_from(last_or_default(self.style_stack), style))]

\* a faulty variant of content: the consumer is not called for empty content
StackFlattener_content_SkipEmpty(self, content) ==
    IF content = "" THEN self
    ELSE [self EXCEPT !.consumed =
            Append(@, <<content, last_or_default(self.style_stack)>>)]

StackFlattener_content(self, content) ==
    [self EXCEPT !.consumed =
        Append(@, <<content, last_or_default(self.style_stack)>>)]

\* a faulty variant of pop_style: only the style on top of the stack pops it
StackFlattener_pop_style_Matching(self, style) ==
    [self EXCEPT !.style_stack =
        IF @ # <<>> /\ Top(@) = style THEN Front(@) ELSE @]

\* Vec::pop removes the last element, and does nothing on an empty Vec
StackFlattener_pop_style(self, style) ==
    [self EXCEPT !.style_stack = IF @ = <<>> THEN <<>> ELSE Front(@)]

\* Flattener::default() of fmt::Display
Flattener_default == [kind |-> "Flattener", buf |-> ""]

Flattener_push_style(self, style) == self

\* a faulty variant of content: a separator is written after each content
Flattener_content_Separator(self, content) ==
    [self EXCEPT !.buf = (@ \o content) \o " "]

Flattener_content(self, content) == [self EXCEPT !.buf = @ \o content]

Flattener_pop_style(self, style) == self

\* the calls through the MessageFlattener trait
push_style(fl, style) ==
    IF fl.kind = "StackFlattener" THEN StackFlattener_push_style(fl, style)
    ELSE Flattener_push_style(fl, style)

content(fl, text) ==
    IF fl.kind = "StackFlattener" THEN StackFlattener_content(fl, text)
    ELSE Flattener_content(fl, text)

pop_style(fl, style) ==
    IF fl.kind = "StackFlattener" THEN StackFlattener_pop_style(fl, style)
    ELSE Flattener_pop_style(fl, style)

---------------------------------------------------------------------------
(* Message::flatten, one step per statement *)

\* a call of flatten on `self`: pc is the statement to run next, i the
\* position of `for child in &self.children`
Frame(self) == [self |-> self, pc |-> "push_style", i |-> 1]

\* a faulty variant of the loop: the children are visited last to first
flatten_child_Reversed(self, i) == self.children[Len(self.children) + 1 - i]

\* the child the i-th iteration of `for child in &self.children` visits
flatten_child(self, i) == self.children[i]

\* a faulty variant of the exit call: pop_style is given the default style
flatten_exit_style_Default(self) == MessageStyle_default

\* the argument of flattener.pop_style at the end of flatten
flatten_exit_style(self) == self.style

NoFlattener == [kind |-> "none"]

---------------------------------------------------------------------------
(* Initial state: nothing built, no traversal running *)

BuildInit ==
    /\ vals = <<>>
    /\ phase = "build"
    /\ frames = <<>>
    /\ flattener = NoFlattener
    /\ calls = <<>>
    /\ out = None

StyleIdle ==
    /\ sorig = MessageStyle_default
    /\ sself = MessageStyle_default
    /\ sprev = MessageStyle_default
    /\ strace = <<>>

Init == BuildInit /\ StyleIdle

---------------------------------------------------------------------------
(* Builder operations.  A builder expression is evaluated on a stack of    *)
(* values: a constructor pushes a Message, a styling call replaces the     *)
(* newest value, `a.with(b)` replaces the two newest values a, b.          *)

Building == phase = "build"

\* the newest value replaced by m, within the bound on set fields
ReplaceTop(m) ==
    /\ Building
    /\ vals # <<>>
    /\ SetFieldCountSeq(Append(Front(vals), m)) <= MaxSetFields
    /\ vals' = Append(Front(vals), m)
    /\ UNCHANGED <<phase, frames, flattener, calls, out, styleVars>>

New ==
    \E c \in Contents :
        /\ Building
        /\ NodeCountSeq(vals) < MaxNodes
        /\ vals' = Append(vals, new(c))
        /\ UNCHANGED <<phase, frames, flattener, calls, out, styleVars>>

With ==
    /\ Building
    /\ Len(vals) >= 2
    /\ vals' = Append(SubSeq(vals, 1, Len(vals) - 2),
                      with(vals[Len(vals) - 1], vals[Len(vals)]))
    /\ UNCHANGED <<phase, frames, flattener, calls, out, styleVars>>

WithStyle ==
    \E style \in StyleInputs : vals # <<>> /\ ReplaceTop(with_style(Top(vals), style))

WithColor ==
    \E color \in OptColors : vals # <<>> /\ ReplaceTop(with_color(Top(vals), color))

WithBold ==
    \E state \in OptBools : vals # <<>> /\ ReplaceTop(with_bold(Top(vals), state))

WithItalic ==
    \E state \in OptBools : vals # <<>> /\ ReplaceTop(with_italic(Top(vals), state))

WithUnderline ==
    \E state \in OptBools : vals # <<>> /\ ReplaceTop(with_underline(Top(vals), state))

WithStrikethrough ==
    \E state \in OptBools :
        vals # <<>> /\ ReplaceTop(with_strikethrough(Top(vals), state))

Color == \E c \in Colors : vals # <<>> /\ ReplaceTop(Message_color(Top(vals), c))
Bold == vals # <<>> /\ ReplaceTop(Message_bold(Top(vals)))
NoBold == vals # <<>> /\ ReplaceTop(Message_no_bold(Top(vals)))
Italic == vals # <<>> /\ ReplaceTop(Message_italic(Top(vals)))
NoItalic == vals # <<>> /\ ReplaceTop(Message_no_italic(Top(vals)))
Underline == vals # <<>> /\ ReplaceTop(Message_underline(Top(vals)))
NoUnderline == vals # <<>> /\ ReplaceTop(Message_no_underline(Top(vals)))
Strikethrough == vals # <<>> /\ ReplaceTop(Message_strikethrough(Top(vals)))
NoStrikethrough == vals # <<>> /\ ReplaceTop(Message_no_strikethrough(Top(vals)))

---------------------------------------------------------------------------
(* Traversal *)

\* msg.flatten(&mut StackFlattener::new(consumer)) on the finished message
FlattenCall ==
    /\ Building
    /\ Len(vals) = 1
    /\ phase' = "flatten"
    /\ flattener' = StackFlattener_new
    /\ frames' = <<Frame(vals[1])>>
    /\ UNCHANGED <<vals, calls, out, styleVars>>

\* fmt::Display::fmt: Flattener::default(), then self.flatten(&mut flattener)
DisplayFmt ==
    /\ Building
    /\ Len(vals) = 1
    /\ phase' = "flatten"
    /\ flattener' = Flattener_default
    /\ frames' = <<Frame(vals[1])>>
    /\ UNCHANGED <<vals, calls, out, styleVars>>

Flattening == phase = "flatten" /\ frames # <<>>

\* flattener.push_style(self.style)
PushStyleStep ==
    /\ Flattening
    /\ Top(frames).pc = "push_style"
    /\ flattener' = push_style(flattener, Top(frames).self.style)
    /\ calls' = Append(calls, [fn |-> "push_style", style |-> Top(frames).self.style])
    /\ frames' = [frames EXCEPT ![Len(frames)].pc = "content"]
    /\ UNCHANGED <<vals, phase, out, styleVars>>

\* a faulty variant of the content statement: empty content is not emitted
ContentStep_SkipEmpty ==
    /\ Flattening
    /\ Top(frames).pc = "content"
    /\ IF Top(frames).self.content = ""
           THEN UNCHANGED <<flattener, calls>>
           ELSE /\ flattener' = content(flattener, Top(frames).self.content)
                /\ calls' = Append(calls, [fn |-> "content",
                                           content |-> Top(frames).self.content])
    /\ frames' = [frames EXCEPT ![Len(frames)].pc = "children"]
    /\ UNCHANGED <<vals, phase, out, styleVars>>

\* flattener.content(&self.content)
ContentStep ==
    /\ Flattening
    /\ Top(frames).pc = "content"
    /\ flattener' = content(flattener, Top(frames).self.content)
    /\ calls' = Append(calls, [fn |-> "content", content |-> Top(frames).self.content])
    /\ frames' = [frames EXCEPT ![Len(frames)].pc = "children"]
    /\ UNCHANGED <<vals, phase, out, styleVars>>

\* for child in &self.children { child.flatten(flattener) }: the next call
DescendStep ==
    /\ Flattening
    /\ Top(frames).pc = "children"
    /\ Top(frames).i <= Len(Top(frames).self.children)
    /\ frames' = Append([frames EXCEPT ![Len(frames)].i = @ + 1],
                        Frame(flatten_child(Top(frames).self, Top(frames).i)))
    /\ UNCHANGED <<vals, phase, flattener, calls, out, styleVars>>

\* flattener.pop_style(self.style), and the call returns
PopStyleStep ==
    /\ Flattening
    /\ Top(frames).pc = "children"
    /\ Top(frames).i > Len(Top(frames).self.children)
    /\ flattener' = pop_style(flattener, flatten_exit_style(Top(frames).self))
    /\ calls' = Append(calls, [fn |-> "pop_style",
                               style |-> flatten_exit_style(Top(frames).self)])
    /\ frames' = Front(frames)
    /\ phase' = IF Len(frames) = 1 THEN "returned" ELSE "flatten"
    /\ UNCHANGED <<vals, out, styleVars>>

\* write!(f, "{}", flattener.buf), after flatten has returned
DisplayWrite ==
    /\ phase = "returned"
    /\ flattener.kind = "Flattener"
    /\ out' = Some(flattener.buf)
    /\ phase' = "written"
    /\ UNCHANGED <<vals, frames, flattener, calls, styleVars>>

Next ==
    \/ New
    \/ With
    \/ WithStyle
    \/ WithColor
    \/ WithBold
    \/ WithItalic
    \/ WithUnderline
    \/ WithStrikethrough
    \/ Color
    \/ Bold
    \/ NoBold
    \/ Italic
    \/ NoItalic
    \/ Underline
    \/ NoUnderline
    \/ Strikethrough
    \/ NoStrikethrough
    \/ FlattenCall
    \/ DisplayFmt
    \/ PushStyleStep
    \/ ContentStep
    \/ DescendStep
    \/ PopStyleStep
    \/ DisplayWrite

Spec == Init /\ [][Next]_vars

\* a statement of a running flatten call
FlattenStep ==
    \/ PushStyleStep
    \/ ContentStep
    \/ DescendStep
    \/ PopStyleStep

\* flatten is synchronous code: once called it runs on, statement after
\* statement, until it returns
SpecFair == Spec /\ WF_vars(FlattenStep)

---------------------------------------------------------------------------
(* The style algebra on its own: a receiver drawn from the argument        *)
(* styles, and overlays merged into it one after another.                  *)

\* most overlays merged into one receiver
MaxMerges == 2

StyleInit ==
    /\ BuildInit
    /\ sorig \in StyleInputs
    /\ sself = sorig
    /\ sprev = sorig
    /\ strace = <<>>

\* self.merge_from(from), in place
MergeFrom ==
    \E from \in StyleInputs :
        /\ Len(strace) < MaxMerges
        /\ sself' = merge_from(sself, from)
        /\ sprev' = sself
        /\ strace' = Append(strace, from)
        /\ UNCHANGED <<buildVars, sorig>>

\* self = self.merged_from(from)
MergedFrom ==
    \E from \in StyleInputs :
        /\ Len(strace) < MaxMerges
        /\ sself' = merged_from(sself, from)
        /\ sprev' = sself
        /\ strace' = Append(strace, from)
        /\ UNCHANGED <<buildVars, sorig>>

StyleNext ==
    \/ MergeFrom
    \/ MergedFrom

SpecStyle == StyleInit /\ [][StyleNext]_vars

---------------------------------------------------------------------------
(* A StackFlattener driven directly through its three methods, with any    *)
(* arguments in any order, as the public MessageFlattener impl allows.     *)

\* most calls made on the driven StackFlattener
MaxDriveCalls == 3

DriveInit ==
    /\ vals = <<>>
    /\ phase = "drive"
    /\ frames = <<>>
    /\ flattener = StackFlattener_new
    /\ calls = <<>>
    /\ out = None
    /\ StyleIdle

Driving == phase = "drive" /\ Len(calls) < MaxDriveCalls

DrivePushStyle ==
    \E style \in StyleInputs :
        /\ Driving
        /\ flattener' = push_style(flattener, style)
        /\ calls' = Append(calls, [fn |-> "push_style", style |-> style])
        /\ UNCHANGED <<vals, phase, frames, out, styleVars>>

DriveContent ==
    \E text \in Contents :
        /\ Driving
        /\ flattener' = content(flattener, text)
        /\ calls' = Append(calls, [fn |-> "content", content |-> text])
        /\ UNCHANGED <<vals, phase, frames, out, styleVars>>

DrivePopStyle ==
    \E style \in StyleInputs :
        /\ Driving
        /\ flattener' = pop_style(flattener, style)
        /\ calls' = Append(calls, [fn |-> "pop_style", style |-> style])
        /\ UNCHANGED <<vals, phase, frames, out, styleVars>>

DriveNext ==
    \/ DrivePushStyle
    \/ DriveContent
    \/ DrivePopStyle

SpecDrive == DriveInit /\ [][DriveNext]_vars

---------------------------------------------------------------------------
(* The styling calls on their own: either a builder expression without a   *)
(* traversal (phase "build"), or a bare MessageStyle, starting from        *)
(* MessageStyle::new(), that the Styleable calls are chained on (phase     *)
(* "style", the style is sself and sprev is the receiver of the last call) *)

StyleableInit ==
    /\ vals = <<>>
    /\ phase \in {"build", "style"}
    /\ frames = <<>>
    /\ flattener = NoFlattener
    /\ calls = <<>>
    /\ out = None
    /\ StyleIdle

\* the bare style replaced by what a Styleable call on it returned
Restyle(style) ==
    /\ phase = "style"
    /\ sself' = style
    /\ sprev' = sself
    /\ UNCHANGED <<buildVars, sorig, strace>>

StyleWithStyle == \E style \in StyleInputs : Restyle(MessageStyle_with_style(sself, style))
StyleWithColor == \E c \in OptColors : Restyle(MessageStyle_with_color(sself, c))
StyleWithBold == \E state \in OptBools : Restyle(MessageStyle_with_bold(sself, state))
StyleWithItalic == \E state \in OptBools : Restyle(MessageStyle_with_italic(sself, state))
StyleWithUnderline ==
    \E state \in OptBools : Restyle(MessageStyle_with_underline(sself, state))
StyleWithStrikethrough ==
    \E state \in OptBools : Restyle(MessageStyle_with_strikethrough(sself, state))
StyleColor == \E c \in Colors : Restyle(MessageStyle_color(sself, c))
StyleBold == Restyle(MessageStyle_bold(sself))
StyleNoBold == Restyle(MessageStyle_no_bold(sself))
StyleItalic == Restyle(MessageStyle_italic(sself))
StyleNoItalic == Restyle(MessageStyle_no_italic(sself))
StyleUnderline == Restyle(MessageStyle_underline(sself))
StyleNoUnderline == Restyle(MessageStyle_no_underline(sself))
StyleStrikethrough == Restyle(MessageStyle_strikethrough(sself))
StyleNoStrikethrough == Restyle(MessageStyle_no_strikethrough(sself))

StyleableNext ==
    \/ New
    \/ With
    \/ WithStyle
    \/ WithColor
    \/ WithBold
    \/ WithItalic
    \/ WithUnderline
    \/ WithStrikethrough
    \/ Color
    \/ Bold
    \/ NoBold
    \/ Italic
    \/ NoItalic
    \/ Underline
    \/ NoUnderline
    \/ Strikethrough
    \/ NoStrikethrough
    \/ StyleWithStyle
    \/ StyleWithColor
    \/ StyleWithBold
    \/ StyleWithItalic
    \/ StyleWithUnderline
    \/ StyleWithStrikethrough
    \/ StyleColor
    \/ StyleBold
    \/ StyleNoBold
    \/ StyleItalic
    \/ StyleNoItalic
    \/ StyleUnderline
    \/ StyleNoUnderline
    \/ StyleStrikethrough
    \/ StyleNoStrikethrough

SpecStyleable == StyleableInit /\ [][StyleableNext]_vars

---------------------------------------------------------------------------
(* Properties of the style algebra (checked under SpecStyle) *)

\* the left-to-right chain of overlays as one combined overlay
RECURSIVE Combined(_)
Combined(overlays) ==
    IF overlays = <<>> THEN MessageStyle_default
    ELSE merged_from(Head(overlays), Combined(Tail(overlays)))

\* C7: after a.merge_from(b) or a.merged_from(b), every field of the result
\* is b's value when b sets the field and a's value otherwise (which may be
\* unset); the result is a style for every pair of styles.
C7_MergePerField ==
    strace # <<>> =>
        /\ sself \in MessageStyle
        /\ \A f \in Fields :
            sself[f] = IF Top(strace)[f] # None THEN Top(strace)[f] ELSE sprev[f]

\* the overlay sets one field, the receiver another, and the result has both
C7_Witness ==
    /\ strace # <<>>
    /\ sprev.bold = Some(TRUE)
    /\ sprev.color = None
    /\ Top(strace).color = Some("RED")
    /\ Top(strace).bold = None
    /\ sself.bold = Some(TRUE)
    /\ sself.color = Some("RED")

\* C8: the default style is a two-sided identity of merge: merging it into s
\* leaves s unchanged, merging s into it gives s, and merging it any number
\* of times in a row leaves the receiver as it started.
C8_MergeIdentity ==
    /\ (strace # <<>> /\ Top(strace) = MessageStyle_default) => sself = sprev
    /\ (strace # <<>> /\ sprev = MessageStyle_default) => sself = Top(strace)
    /\ (\A i \in DOMAIN strace : strace[i] = MessageStyle_default) => sself = sorig

\* the default style merged twice in a row into a style that sets a field
C8_Witness ==
    /\ Len(strace) = 2
    /\ strace[1] = MessageStyle_default
    /\ strace[2] = MessageStyle_default
    /\ sorig.bold = Some(FALSE)
    /\ sself = sorig

\* C9: merging the overlays one after another gives the same style as merging
\* the single combined overlay, and a field that the last two overlays both
\* set carries the value of the later one.
C9_MergeAssociative ==
    /\ sself = merged_from(sorig, Combined(strace))
    /\ Len(strace) >= 2 =>
        \A f \in Fields :
            (strace[Len(strace) - 1][f] # None /\ Top(strace)[f] # None)
                => sself[f] = Top(strace)[f]

\* two overlays that set the same field to different values
C9_Witness ==
    /\ Len(strace) = 2
    /\ strace[1].color = Some("RED")
    /\ strace[2].color = Some("BLUE")
    /\ sorig.italic = Some(TRUE)
    /\ sself.color = Some("BLUE")
    /\ sself.italic = Some(TRUE)

---------------------------------------------------------------------------
(* Properties of the traversal (checked under Spec) *)

\* the message being flattened: the tree is the builder's finished value
Root == vals[1]
Traversing == phase \in {"flatten", "returned", "written"}
Returned == phase \in {"returned", "written"}

IsPrefix(s, t) == Len(s) <= Len(t) /\ SubSeq(t, 1, Len(s)) = s

CallCount(fn) == Cardinality({i \in DOMAIN calls : calls[i].fn = fn})

\* a visitor that keeps a stack: push on push_style, pop on pop_style; ok
\* says that every pop so far found its own push's style on top
RECURSIVE Checker(_)
Checker(cs) ==
    IF cs = <<>> THEN [ok |-> TRUE, stack |-> <<>>]
    ELSE LET before == Checker(Front(cs))
             c == Top(cs)
         IN  IF c.fn = "push_style"
                 THEN [ok |-> before.ok, stack |-> Append(before.stack, c.style)]
             ELSE IF c.fn = "pop_style"
                 THEN [ok |-> /\ before.ok
                              /\ before.stack # <<>>
                              /\ Top(before.stack) = c.style,
                       stack |-> IF before.stack = <<>> THEN <<>>
                                 ELSE Front(before.stack)]
             ELSE before

\* C1: the visitor calls of flatten are balanced and properly nested: no
\* prefix has more pops than pushes, each pop_style carries the style of the
\* push_style it matches, and when flatten has returned there were as many
\* pushes as pops as nodes and a stack-keeping visitor is empty again.
C1_CallsBalanced ==
    Traversing =>
        /\ Checker(calls).ok
        /\ CallCount("pop_style") <= CallCount("push_style")
        /\ Returned =>
            /\ CallCount("push_style") = NodeCount(Root)
            /\ CallCount("pop_style") = NodeCount(Root)
            /\ Checker(calls).stack = <<>>
            /\ flattener.kind = "StackFlattener" => flattener.style_stack = <<>>

\* flatten has returned from a root with two differently styled children
C1_Witness ==
    /\ phase = "returned"
    /\ flattener.kind = "StackFlattener"
    /\ Len(Root.children) = 2
    /\ Root.children[1].style # Root.children[2].style
    /\ Root.children[1].style # MessageStyle_default
    /\ CallCount("pop_style") = 3

\* the call sequence the traversal contract prescribes for a node: enter,
\* emit, the children's sequences left to right, exit
RECURSIVE Events(_), EventsSeq(_)
Events(m) ==
    <<[fn |-> "push_style", style |-> m.style],
      [fn |-> "content", content |-> m.content]>>
    \o EventsSeq(m.children)
    \o <<[fn |-> "pop_style", style |-> m.style]>>
EventsSeq(ms) ==
    IF ms = <<>> THEN <<>> ELSE Events(Head(ms)) \o EventsSeq(Tail(ms))

\* C2: flatten visits each node once, depth first: push_style(style),
\* content(content), the children's complete sequences left to right, then
\* pop_style(style); at every point the calls issued are a prefix of that
\* sequence and at return they are the whole of it.
C2_DepthFirstOrder ==
    Traversing =>
        /\ IsPrefix(calls, Events(Root))
        /\ Returned => calls = Events(Root)

\* a finished traversal of a root whose two children have different contents
C2_Witness ==
    /\ phase = "returned"
    /\ Len(Root.children) = 2
    /\ Root.children[1].content = "a"
    /\ Root.children[2].content = "b"
    /\ Len(calls) = 9

\* the styles of the calls entered and not yet exited, outermost first
RECURSIVE FrameStyles(_)
FrameStyles(fs) ==
    IF fs = <<>> THEN <<>>
    ELSE IF Head(fs).pc = "push_style" THEN FrameStyles(Tail(fs))
    ELSE <<Head(fs).self.style>> \o FrameStyles(Tail(fs))

\* the own styles of a path merged onto the identity, root first
RECURSIVE PathMerge(_)
PathMerge(styles) ==
    IF styles = <<>> THEN MessageStyle_default
    ELSE merged_from(PathMerge(Front(styles)), Top(styles))

\* C3: while a StackFlattener that started empty is driven by flatten, its
\* stack is as long as the traversal is deep, and each entry (the top
\* included) is the identity with the own styles of the path from the root
\* to that depth merged onto it in root-to-node order.
C3_StackTracksPath ==
    (Traversing /\ flattener.kind = "StackFlattener") =>
        LET path == FrameStyles(frames) IN
        /\ Len(flattener.style_stack) = Len(path)
        /\ \A k \in 1..Len(path) :
            flattener.style_stack[k] = PathMerge(SubSeq(path, 1, k))

\* two levels deep, the root sets bold, the child sets the colour, and the
\* top of the stack carries both
C3_Witness ==
    /\ phase = "flatten"
    /\ flattener.kind = "StackFlattener"
    /\ Len(FrameStyles(frames)) = 2
    /\ frames[1].self.style.bold = Some(TRUE)
    /\ frames[2].self.style.color = Some("BLUE")
    /\ frames[2].self.style.bold = None
    /\ Top(flattener.style_stack).bold = Some(TRUE)
    /\ Top(flattener.style_stack).color = Some("BLUE")

\* the (content, resolved style) pairs of a tree in depth-first pre-order,
\* below a parent whose resolved style is `inherited`
RECURSIVE PreOrder(_, _), PreOrderSeq(_, _)
PreOrder(m, inherited) ==
    LET resolved == merged_from(inherited, m.style)
    IN  <<<<m.content, resolved>>>> \o PreOrderSeq(m.children, resolved)
PreOrderSeq(ms, inherited) ==
    IF ms = <<>> THEN <<>>
    ELSE PreOrder(Head(ms), inherited) \o PreOrderSeq(Tail(ms), inherited)

\* the call of flatten that has just emitted its content
JustEmitted ==
    /\ phase = "flatten"
    /\ frames # <<>>
    /\ Top(frames).pc = "children"
    /\ Top(frames).i = 1

\* C4: a fresh StackFlattener calls the consumer once per node in pre-order,
\* empty contents included, each time with the node's content and the top of
\* the style stack: the consumer's calls are a prefix of the pre-order list
\* of (content, resolved style) pairs, and the whole list at return.
C4_ConsumerPreOrder ==
    (Traversing /\ flattener.kind = "StackFlattener") =>
        /\ IsPrefix(flattener.consumed, PreOrder(Root, MessageStyle_default))
        /\ Len(flattener.consumed) = CallCount("content")
        /\ JustEmitted =>
            Top(flattener.consumed) =
                <<Top(frames).self.content, last_or_default(flattener.style_stack)>>
        /\ Returned =>
            /\ flattener.consumed = PreOrder(Root, MessageStyle_default)
            /\ Len(flattener.consumed) = NodeCount(Root)

\* a finished traversal of three nodes, the middle one with empty content
C4_Witness ==
    /\ phase = "returned"
    /\ flattener.kind = "StackFlattener"
    /\ Len(flattener.consumed) = 3
    /\ flattener.consumed[1][1] = "a"
    /\ flattener.consumed[2][1] = ""
    /\ flattener.consumed[3][1] = "b"
    /\ flattener.consumed[2][2].color = Some("RED")

\* the nodes of a tree, each named by the child positions leading to it
RECURSIVE Paths(_)
Paths(m) ==
    {<<>>} \cup UNION {{<<i>> \o p : p \in Paths(m.children[i])} :
                        i \in DOMAIN m.children}

RECURSIVE NodeAt(_, _)
NodeAt(m, p) == IF p = <<>> THEN m ELSE NodeAt(m.children[Head(p)], Tail(p))

\* q comes before p in depth-first pre-order
Before(q, p) ==
    /\ q # p
    /\ \/ IsPrefix(q, p)
       \/ \E k \in 1..Len(q) :
            /\ k <= Len(p)
            /\ SubSeq(q, 1, k - 1) = SubSeq(p, 1, k - 1)
            /\ q[k] < p[k]

PreIndex(m, p) == Cardinality({q \in Paths(m) : Before(q, p)}) + 1

\* the value of field f at the nearest node on the path to p (p included)
\* that sets it, None when no node on the path does
NearestSet(m, p, f) ==
    LET setters == {k \in 0..Len(p) : NodeAt(m, SubSeq(p, 1, k)).style[f] # None}
    IN  IF setters = {} THEN None
        ELSE LET k == CHOOSE x \in setters : \A y \in setters : y <= x
             IN  NodeAt(m, SubSeq(p, 1, k)).style[f]

\* C5: in the style delivered with a node's content, each field has the
\* node's own value when the node sets it, whatever the ancestors set, and
\* otherwise the value of the nearest ancestor that sets it; nodes off the
\* path (earlier siblings and their subtrees) have no influence.
C5_NearestSetterWins ==
    (Returned /\ flattener.kind = "StackFlattener") =>
        \A p \in Paths(Root) :
            /\ PreIndex(Root, p) <= Len(flattener.consumed)
            /\ flattener.consumed[PreIndex(Root, p)][1] = NodeAt(Root, p).content
            /\ \A f \in Fields :
                flattener.consumed[PreIndex(Root, p)][2][f] = NearestSet(Root, p, f)

\* the root sets bold on, its first child sets bold off, its second child
\* leaves bold unset: the children get bold off and bold on
C5_Witness ==
    /\ phase = "returned"
    /\ flattener.kind = "StackFlattener"
    /\ Len(Root.children) = 2
    /\ Root.style.bold = Some(TRUE)
    /\ Root.children[1].style.bold = Some(FALSE)
    /\ Root.children[2].style.bold = None
    /\ flattener.consumed[2][2].bold = Some(FALSE)
    /\ flattener.consumed[3][2].bold = Some(TRUE)

\* the contents of a tree in depth-first pre-order, joined
RECURSIVE ConcatContent(_), ConcatContentSeq(_)
ConcatContent(m) == m.content \o ConcatContentSeq(m.children)
ConcatContentSeq(ms) ==
    IF ms = <<>> THEN ""
    ELSE ConcatContent(Head(ms)) \o ConcatContentSeq(Tail(ms))

---------------------------------------------------------------------------
(* Properties of the builder (checked under Spec) *)

\* a builder step that turned the two newest values into one: a.with(b)
WithHappened ==
    /\ Building
    /\ phase' = "build"
    /\ Len(vals) >= 2
    /\ Len(vals') = Len(vals) - 1

\* C10: with(child) appends the child, as given, at the end of the receiver's
\* children and changes nothing else of the receiver or of the other values;
\* "a".with("b").with("c") is "a" with the leaves "b", "c" in that order.
C10_WithAppends ==
    /\ with(with(new("a"), new("b")), new("c")) =
        [content |-> "a", style |-> MessageStyle_default,
         children |-> <<[content |-> "b", style |-> MessageStyle_default,
                          children |-> <<>>],
                        [content |-> "c", style |-> MessageStyle_default,
                          children |-> <<>>]>>]
    /\ [][WithHappened =>
            LET self == vals[Len(vals) - 1]
                child == vals[Len(vals)]
                res == vals'[Len(vals')]
            IN  /\ res.content = self.content
                /\ res.style = self.style
                /\ Len(res.children) = Len(self.children) + 1
                /\ SubSeq(res.children, 1, Len(self.children)) = self.children
                /\ res.children[Len(res.children)] = child
                /\ Front(vals') = SubSeq(vals, 1, Len(vals) - 2)]_vars

\* "b".with("a").with("b") with a bold first child has been built
C10_Witness ==
    /\ phase = "build"
    /\ Len(vals) = 1
    /\ vals[1].content = "b"
    /\ Len(vals[1].children) = 2
    /\ vals[1].children[1] = with_bold(new("a"), Some(TRUE))
    /\ vals[1].children[2] = new("b")

---------------------------------------------------------------------------
(* Properties of the styling calls (checked under SpecStyleable) *)

\* a builder step that replaced the newest value by m
MessageBecame(m) ==
    /\ Building
    /\ vals # <<>>
    /\ phase' = "build"
    /\ vals' = Append(Front(vals), m)

\* a step that replaced the bare style by s
StyleBecame(s) ==
    /\ phase = "style"
    /\ sself' = s
    /\ sprev' = sself

\* the newest Message has field f of its own style at v, and its other
\* fields, its content, its children (with their styles), and the values
\* below it are as before
MessageSetsOnly(f, v) ==
    /\ Top(vals').style[f] = v
    /\ \A g \in Fields \ {f} : Top(vals').style[g] = Top(vals).style[g]
    /\ Top(vals').content = Top(vals).content
    /\ Top(vals').children = Top(vals).children
    /\ Front(vals') = Front(vals)

\* the bare style has field f at v and its other fields as before
StyleSetsOnly(f, v) ==
    /\ sself'[f] = v
    /\ \A g \in Fields \ {f} : sself'[g] = sself[g]

\* C11: each per-decoration setter, on a Message and on a bare MessageStyle,
\* sets the one field it names to the value given (None included) and leaves
\* the other four fields, the content and the children as they were.
C11_SetterFrame ==
    [][/\ \A c \in OptColors :
            /\ MessageBecame(with_color(Top(vals), c))
                => MessageSetsOnly("color", c)
            /\ StyleBecame(MessageStyle_with_color(sself, c))
                => StyleSetsOnly("color", c)
       /\ \A state \in OptBools :
            /\ MessageBecame(with_bold(Top(vals), state))
                => MessageSetsOnly("bold", state)
            /\ MessageBecame(with_italic(Top(vals), state))
                => MessageSetsOnly("italic", state)
            /\ MessageBecame(with_underline(Top(vals), state))
                => MessageSetsOnly("underline", state)
            /\ MessageBecame(with_strikethrough(Top(vals), state))
                => MessageSetsOnly("strikethrough", state)
            /\ StyleBecame(MessageStyle_with_bold(sself, state))
                => StyleSetsOnly("bold", state)
            /\ StyleBecame(MessageStyle_with_italic(sself, state))
                => StyleSetsOnly("italic", state)
            /\ StyleBecame(MessageStyle_with_underline(sself, state))
                => StyleSetsOnly("underline", state)
            /\ StyleBecame(MessageStyle_with_strikethrough(sself, state))
                => StyleSetsOnly("strikethrough", state)
       /\ \A c \in Colors :
            /\ MessageBecame(Message_color(Top(vals), c))
                => MessageSetsOnly("color", Some(c))
            /\ StyleBecame(MessageStyle_color(sself, c))
                => StyleSetsOnly("color", Some(c))
       /\ MessageBecame(Message_bold(Top(vals)))
            => MessageSetsOnly("bold", Some(TRUE))
       /\ MessageBecame(Message_no_bold(Top(vals)))
            => MessageSetsOnly("bold", Some(FALSE))
       /\ MessageBecame(Message_italic(Top(vals)))
            => MessageSetsOnly("italic", Some(TRUE))
       /\ MessageBecame(Message_no_italic(Top(vals)))
            => MessageSetsOnly("italic", Some(FALSE))
       /\ MessageBecame(Message_underline(Top(vals)))
            => MessageSetsOnly("underline", Some(TRUE))
       /\ MessageBecame(Message_no_underline(Top(vals)))
            => MessageSetsOnly("underline", Some(FALSE))
       /\ MessageBecame(Message_strikethrough(Top(vals)))
            => MessageSetsOnly("strikethrough", Some(TRUE))
       /\ MessageBecame(Message_no_strikethrough(Top(vals)))
            => MessageSetsOnly("strikethrough", Some(FALSE))
       /\ StyleBecame(MessageStyle_bold(sself))
            => StyleSetsOnly("bold", Some(TRUE))
       /\ StyleBecame(MessageStyle_no_bold(sself))
            => StyleSetsOnly("bold", Some(FALSE))
       /\ StyleBecame(MessageStyle_italic(sself))
            => StyleSetsOnly("italic", Some(TRUE))
       /\ StyleBecame(MessageStyle_no_italic(sself))
            => StyleSetsOnly("italic", Some(FALSE))
       /\ StyleBecame(MessageStyle_underline(sself))
            => StyleSetsOnly("underline", Some(TRUE))
       /\ StyleBecame(MessageStyle_no_underline(sself))
            => StyleSetsOnly("underline", Some(FALSE))
       /\ StyleBecame(MessageStyle_strikethrough(sself))
            => StyleSetsOnly("strikethrough", Some(TRUE))
       /\ StyleBecame(MessageStyle_no_strikethrough(sself))
            => StyleSetsOnly("strikethrough", Some(FALSE))
      ]_vars

\* a message with an italic child has been set to not bold: the content and
\* the child with its style are still there
C11_Witness ==
    /\ phase = "build"
    /\ Len(vals) = 1
    /\ vals[1].content = "a"
    /\ vals[1].style.bold = Some(FALSE)
    /\ vals[1].style.italic = None
    /\ Len(vals[1].children) = 1
    /\ vals[1].children[1].content = "b"
    /\ vals[1].children[1].style.italic = Some(TRUE)

\* C12: with_style(style) applies the style on top of the receiver's: a
\* field the given style sets takes the given value, and a field it leaves
\* unset keeps the receiver's value, for a Message and for a bare
\* MessageStyle.  (The code assigns the given style instead.)
C12_WithStyleOnTop ==
    [][\A style \in StyleInputs :
        /\ MessageBecame(with_style(Top(vals), style)) =>
            \A f \in Fields :
                Top(vals').style[f] =
                    IF style[f] # None THEN style[f] ELSE Top(vals).style[f]
        /\ StyleBecame(MessageStyle_with_style(sself, style)) =>
            \A f \in Fields :
                sself'[f] = IF style[f] # None THEN style[f] ELSE sself[f]
      ]_vars

---------------------------------------------------------------------------
(* Termination of the traversal (checked under SpecFair) *)

\* C13: flatten terminates on every tree: once called it eventually returns,
\* having made one push_style, one content and one pop_style call per node
\* (three calls per node in all), and no step of it changes the tree.
C13_FlattenTerminates ==
    /\ (phase = "flatten") ~> Returned
    /\ [](Returned =>
            /\ Len(calls) = 3 * NodeCount(Root)
            /\ CallCount("push_style") = NodeCount(Root)
            /\ CallCount("content") = NodeCount(Root)
            /\ CallCount("pop_style") = NodeCount(Root))
    /\ [][Traversing => (Traversing' /\ vals' = vals)]_vars

\* a traversal of three nodes has returned after nine calls
C13_Witness ==
    /\ phase = "returned"
    /\ NodeCount(Root) = 3
    /\ Len(Root.children) = 1
    /\ Len(calls) = 9

\* every field set in style s is set in style t
SetFieldsKept(s, t) == \A f \in Fields : s[f] # None => t[f] # None

\* C15: along a root-to-leaf path the resolved styles only gain set fields:
\* a field set in the style delivered with a node's content is set in the
\* style delivered with the content of each of its descendants, and on the
\* style stack each entry keeps every field the entries below it set; a
\* descendant whose own field is None does not return it to unset.
C15_ResolvedFieldsGrow ==
    /\ (flattener.kind = "StackFlattener") =>
        \A k \in DOMAIN flattener.style_stack :
            \A l \in k..Len(flattener.style_stack) :
                SetFieldsKept(flattener.style_stack[k], flattener.style_stack[l])
    /\ (Returned /\ flattener.kind = "StackFlattener") =>
        \A p \in Paths(Root) :
            \A q \in Paths(Root) :
                IsPrefix(p, q) =>
                    SetFieldsKept(flattener.consumed[PreIndex(Root, p)][2],
                                  flattener.consumed[PreIndex(Root, q)][2])

\* the root sets bold, its child sets nothing, the grandchild sets only the
\* colour: both descendants are delivered with bold set
C15_Witness ==
    /\ phase = "returned"
    /\ flattener.kind = "StackFlattener"
    /\ Len(Root.children) = 1
    /\ Len(Root.children[1].children) = 1
    /\ Root.style.bold = Some(TRUE)
    /\ Root.children[1].style = MessageStyle_default
    /\ Root.children[1].children[1].style.bold = None
    /\ Root.children[1].children[1].style.color = Some("RED")
    /\ flattener.consumed[1][2].color = None
    /\ flattener.consumed[2][2].bold = Some(TRUE)
    /\ flattener.consumed[3][2].bold = Some(TRUE)
    /\ flattener.consumed[3][2].color = Some("RED")

---------------------------------------------------------------------------
(* Properties of the driven StackFlattener (checked under SpecDrive) *)

\* the step was a call of pop_style on the driven StackFlattener
PopStyleCalled ==
    /\ phase = "drive"
    /\ Len(calls') = Len(calls) + 1
    /\ calls'[Len(calls')].fn = "pop_style"

\* C14: pop_style, whatever style it is given, removes exactly the top entry
\* of a non-empty style stack and leaves the entries below as they were,
\* leaves an empty stack empty without failing, and does not call the
\* consumer.
C14_PopUnconditional ==
    [][PopStyleCalled =>
        /\ flattener'.kind = "StackFlattener"
        /\ flattener.style_stack # <<>> =>
            /\ Len(flattener'.style_stack) = Len(flattener.style_stack) - 1
            /\ \A k \in 1..Len(flattener'.style_stack) :
                flattener'.style_stack[k] = flattener.style_stack[k]
        /\ flattener.style_stack = <<>> => flattener'.style_stack = <<>>
        /\ flattener'.consumed = flattener.consumed
      ]_vars

\* bold then red were pushed, and pop_style was called with a style that is
\* neither the one pushed last nor the one on top: the entry below remains
C14_Witness ==
    /\ phase = "drive"
    /\ Len(calls) = 3
    /\ calls[1] = [fn |-> "push_style",
                   style |-> MessageStyle_bold(MessageStyle_default)]
    /\ calls[2] = [fn |-> "push_style",
                   style |-> MessageStyle_color(MessageStyle_default, "RED")]
    /\ calls[3] = [fn |-> "pop_style",
                   style |-> MessageStyle_italic(MessageStyle_default)]
    /\ flattener.style_stack = <<MessageStyle_bold(MessageStyle_default)>>

====
